---- MODULE Spec2Model ----
(***************************************************************************)
(* Strategy Execution Engine of crypto-super-hub (the Home component).     *)
(*                                                                         *)
(* Units.  Time is counted in seconds (the source counts milliseconds;     *)
(* every interval of the source is a whole number of seconds).  Asset      *)
(* amounts (btcAmount, btcHoldings) are fixed-point numbers counted in     *)
(* 1/AssetScale of a coin, truncated; fiat amounts, prices and risk values *)
(* are integers.  A timestamp string (toISOString) is the pair             *)
(* <<day, second of day>>; its first ten characters are the day.           *)
(* An optional field that is absent holds Undefined (numbers), <<>>        *)
(* (timestamps, lists) or NoFrequency.                                     *)
(***************************************************************************)
EXTENDS Integers, Sequences, FiniteSets, TLC

\* ------------------------------------------------------------------ bounds
MaxPlans == 1      \* strategies created in one run
MaxDays  == 1      \* the clock stops advancing after this many days
MaxExecs == 3      \* a tick that would leave more executions than this is not taken
MaxLoop  == 101    \* iterations after which a level loop is known not to end

\* ------------------------------------------------------- program constants
Undefined      == 0 - 1
NoFrequency    == "undefined"
NoAssetId      == "null"
AssetScale     == 100000
DAY            == 24 * 60 * 60
RiskValueInit  == 50
AssetPriceInit == 103420
DefaultStep    == 5

Assets == {"BTC"}

Min(a, b) == IF a <= b THEN a ELSE b
Max(a, b) == IF a >= b THEN a ELSE b
Abs(a)    == IF a < 0 THEN 0 - a ELSE a

RECURSIVE Pow(_, _)
Pow(b, e) == IF e <= 0 THEN 1 ELSE b * Pow(b, e - 1)

RECURSIVE Gcd(_, _)
Gcd(a, b) == IF b = 0 THEN a ELSE Gcd(b, a % b)

\* Math.round of the non-negative rational num/den (halves round up).
Round(num, den) == (2 * num + den) \div (2 * den)

\* Math.round(base * Math.pow(1 + pct / 100, i)), the fraction reduced first.
RoundGrowthDown(base, pct, i) ==
    LET g == Gcd(100 + pct, 100)
        n == (100 + pct) \div g
        d == 100 \div g
    IN  (base * Pow(n, i)) \div Pow(d, i)
RoundGrowth(base, pct, i) ==
    LET g == Gcd(100 + pct, 100)
        n == (100 + pct) \div g
        d == 100 \div g
    IN  Round(base * Pow(n, i), Pow(d, i))

\* new Date(t).toISOString(), new Date(iso).getTime(), iso.slice(0, 10)
toISOString(t) == <<t \div DAY, t % DAY>>
getTime(iso)   == iso[1] * DAY + iso[2]
dateOf(iso)    == iso[1]

\* price > 0 ? amountFiat / price : 0
btcAmountOfFiat(amountFiat, price) ==
    IF price > 0 THEN amountFiat * AssetScale ELSE 0
btcAmountOf(amountFiat, price) ==
    IF price > 0 THEN (amountFiat * AssetScale) \div price ELSE 0

\* ------------------------------------------------------------ price model
NoAsset == [present |-> FALSE, risk_score |-> 0, price |-> 0,
            hasComponents |-> FALSE, floor_price |-> 0, ceiling_price |-> 0]
NoAssets == [a \in Assets |-> NoAsset]

\* Payloads of GET /api/risk.  Risk scores are multiples of ten and
\* ceiling/floor is a tenth power, so that the log interpolation is exact.
Feeds ==
  { [a \in Assets |->
       [present |-> TRUE, risk_score |-> 90, price |-> 67000,
        hasComponents |-> TRUE, floor_price |-> 100, ceiling_price |-> 102400]] }

TenthRoot(q) == CHOOSE k \in 1..8 : Pow(k, 10) = q

\* Math.pow(x, 0) is 1 and Math.pow(x, 1) is x, so at risk 0 the result is
\* floor * 1 and at risk 100 it is floor * (ceiling / floor), which is ceiling
\* to the nearest integer (priceAtRiskLogError tells whether it is exactly
\* ceiling).
priceAtRiskLog(floor, ceiling, risk) ==
    IF floor <= 0 \/ ceiling <= 0
    THEN (IF floor # 0 THEN floor ELSE IF ceiling # 0 THEN ceiling ELSE 0)
    ELSE IF risk = 0 THEN floor
    ELSE IF risk = 100 THEN ceiling
    ELSE floor * Pow(TenthRoot(ceiling \div floor), risk \div 10)

\* Numbers are IEEE 754 doubles: a quotient and a product are rounded to
\* MantissaBits + 1 significant bits, ties to even.
MantissaBits == 52

RECURSIVE Log2(_)
Log2(n) == IF n < 2 THEN 0 ELSE 1 + Log2(n \div 2)

RECURSIVE PowMod(_, _, _)
PowMod(b, e, m) == IF e = 0 THEN 1 % m ELSE (b * PowMod(b, e - 1, m)) % m

\* The sign of  f * (c / f) - c  as doubles compute it, for integers
\* 1 <= f <= c.  With e = floor(log2(c / f)) and k = MantissaBits - e the
\* quotient is m * 2^-k, m the integer nearest to c * 2^k / f; r is the
\* remainder of that division, so f * m = c * 2^k + d with d = -r (rounded
\* down) or f - r (rounded up).  The product is then rounded to a multiple of
\* the spacing u = 2^(a - e) * 2^k / 2^k of the doubles around c, a =
\* floor(log2(c)) (half that spacing just below a power of two).
mulDivError(f, c) ==
    LET e    == Log2(c \div f)
        k    == MantissaBits - e
        a    == Log2(c)
        r    == ((c % f) * PowMod(2, k, f)) % f
        r2   == ((c % (2 * f)) * PowMod(2, k, 2 * f)) % (2 * f)
        odd  == (r2 - r) \div f = 1
        d    == IF 2 * r < f THEN 0 - r
                ELSE IF 2 * r > f THEN f - r
                ELSE IF odd THEN f - r ELSE 0 - r
        u    == Pow(2, a - e)
    IN  IF r = 0 THEN 0
        ELSE IF d > 0 THEN (IF 2 * d <= u THEN 0 ELSE 1)
        ELSE IF c = Pow(2, a) THEN (IF 4 * (0 - d) <= u THEN 0 ELSE 0 - 1)
        ELSE (IF 2 * (0 - d) <= u THEN 0 ELSE 0 - 1)

\* The sign of the difference between the double priceAtRiskLog returns at
\* risk 0 or 100 and the integer the model carries for it.
priceAtRiskLogError(floor, ceiling, risk) ==
    IF floor <= 0 \/ ceiling <= 0 \/ risk = 0 THEN 0
    ELSE mulDivError(floor, ceiling)

getMockBtcPriceForRisk(assetPriceUsd, risk) ==
    Round(assetPriceUsd * (1000 + 8 * risk), 1000)

\* getPriceAtRisk of the render whose state is (allAssets, assetPriceUsd)
getPriceAtRisk(assets, assetPriceUsd, assetId, risk) ==
    LET a == assets[assetId]
    IN  IF ~a.present \/ ~a.hasComponents
        THEN getMockBtcPriceForRisk(assetPriceUsd, risk)
        ELSE IF a.floor_price > 0 /\ a.ceiling_price > 0
             THEN priceAtRiskLog(a.floor_price, a.ceiling_price, risk)
             ELSE Round(a.price * (1000 + 8 * risk), 1000)

\* ------------------------------------------------------- strategy helpers
getFrequencyIntervalMsNone(freq) == 0
getFrequencyIntervalMs(freq) ==
    CASE freq = "daily"       -> 24 * 60 * 60
      [] freq = "weekly"      -> 7 * 24 * 60 * 60
      [] freq = "fortnightly" -> 14 * 24 * 60 * 60
      [] freq = "monthly"     -> 30 * 24 * 60 * 60
      [] OTHER                -> 7 * 24 * 60 * 60

getActiveRiskBoundsAsStored(plan) ==
    [minR |-> plan.activeRiskStart, maxR |-> plan.activeRiskEnd,
     start |-> plan.activeRiskStart, end |-> plan.activeRiskEnd]
getActiveRiskBounds(plan) ==
    LET s0 == IF plan.activeRiskStart = Undefined
              THEN (IF plan.mode = "accumulate" THEN 80 ELSE 50)
              ELSE plan.activeRiskStart
        e0 == IF plan.activeRiskEnd = Undefined
              THEN (IF plan.mode = "accumulate" THEN 0 ELSE 100)
              ELSE plan.activeRiskEnd
        start == Max(0, Min(100, s0))
        end   == Max(0, Min(100, e0))
    IN  [minR |-> Min(start, end), maxR |-> Max(start, end),
         start |-> start, end |-> end]

\* for (let r = maxR; r >= minR; r -= step) levels.push(r)
RECURSIVE LoopDown(_, _, _)
LoopDown(r, minR, step) ==
    IF r >= minR THEN <<r>> \o LoopDown(r - step, minR, step) ELSE <<>>

\* for (let r = minR; r <= maxR; r += step) levels.push(r)
RECURSIVE LoopUp(_, _, _)
LoopUp(r, maxR, step) ==
    IF r <= maxR THEN <<r>> \o LoopUp(r + step, maxR, step) ELSE <<>>

\* Whether the loop of getStrategyLevels ends: the loop variable starts in
\* [minR, maxR] and moves by step, so with step >= 1 it leaves the range
\* within MaxLoop iterations, and with step <= 0 it never does.
RECURSIVE loopEnds(_, _, _, _, _)
loopEnds(mode, r, b, step, fuel) ==
    IF (IF mode = "accumulate" THEN r < b.minR ELSE r > b.maxR) THEN TRUE
    ELSE IF fuel = 0 THEN FALSE
    ELSE loopEnds(mode, IF mode = "accumulate" THEN r - step ELSE r + step,
                  b, step, fuel - 1)

getStrategyLevelsReturns(plan) ==
    LET b    == getActiveRiskBounds(plan)
        step == IF plan.dynamicStepInterval = Undefined
                THEN DefaultStep ELSE plan.dynamicStepInterval
    IN  loopEnds(plan.mode, IF plan.mode = "accumulate" THEN b.maxR ELSE b.minR,
                 b, step, MaxLoop)

getStrategyLevelsAscending(plan) ==
    LET b    == getActiveRiskBounds(plan)
        step == IF plan.dynamicStepInterval = Undefined
                THEN DefaultStep ELSE plan.dynamicStepInterval
    IN  LoopUp(b.minR, b.maxR, step)
getStrategyLevels(plan) ==
    LET b    == getActiveRiskBounds(plan)
        step == IF plan.dynamicStepInterval = Undefined
                THEN DefaultStep ELSE plan.dynamicStepInterval
        raw  == IF plan.mode = "accumulate"
                THEN LoopDown(b.maxR, b.minR, step)
                ELSE LoopUp(b.minR, b.maxR, step)
    IN  IF Len(raw) > 0 THEN raw ELSE <<b.minR>>

getAmountAtRisk(plan, risk) ==
    LET b          == getActiveRiskBounds(plan)
        firstLevel == IF plan.mode = "accumulate" THEN b.maxR ELSE b.minR
        dyn        == /\ plan.strategyType = "dynamic"
                      /\ plan.dynamicStepInterval # Undefined
                      /\ plan.dynamicMultiplierPct # Undefined
        dist       == IF plan.mode = "accumulate"
                      THEN firstLevel - risk ELSE risk - firstLevel
    IN  IF dyn
        THEN RoundGrowth(plan.amountPerPurchase, plan.dynamicMultiplierPct,
                         Max(0, dist \div plan.dynamicStepInterval))
        ELSE plan.amountPerPurchase

\* (p.executions ?? []).reduce((s, e) => s + e.btcAmount, 0)
RECURSIVE SumBtc(_)
SumBtc(execs) ==
    IF Len(execs) = 0 THEN 0 ELSE execs[1].btcAmount + SumBtc(Tail(execs))

\* The order plan persisted by the save and update handlers.
ComputeOrders(mode, minR, maxR, step, pct, base) ==
    LET levels == IF mode = "accumulate"
                  THEN LoopDown(maxR, minR, step)
                  ELSE LoopUp(minR, maxR, step)
    IN  [i \in 1..Len(levels) |->
           [risk |-> levels[i], amountFiat |-> RoundGrowth(base, pct, i - 1)]]

\* ---------------------------------------------------------------- state
VARIABLES
    savedPlans,     \* useState<SavedStrategy[]>: the in-memory strategy list
    store,          \* localStorage["csh-saved-strategies"], parsed
    phase,          \* "render1" | "mounting" | "mounted": position of the mount
    riskValue,      \* useState(50): the current risk of the latest render
    assetPriceUsd,  \* useState(103420)
    allAssets,      \* useState({}): the payload of /api/risk once it resolved
    builderAsset,   \* asset chosen in the Strategy Builder (the effective asset)
    tickClosure,    \* riskValue, allAssets, assetPriceUsd as the tick effect captured them
    now,            \* Date.now()
    nextId          \* number of strategies created so far (ids are plan-<Date.now()>)

vars == <<savedPlans, store, phase, riskValue, assetPriceUsd, allAssets,
          builderAsset, tickClosure, now, nextId>>

Idx(plans) == 1..Len(plans)
Ids(plans) == {plans[i].id : i \in Idx(plans)}
PlanOf(plans, id) == plans[CHOOSE i \in Idx(plans) : plans[i].id = id]
MapPlans(plans, F(_)) == [i \in Idx(plans) |-> F(plans[i])]

RECURSIVE CountExecs(_)
CountExecs(plans) ==
    IF Len(plans) = 0 THEN 0 ELSE Len(plans[1].executions) + CountExecs(Tail(plans))

inRange(plan, risk) ==
    LET b == getActiveRiskBounds(plan) IN risk >= b.minR /\ risk <= b.maxR

\* -------------------------------------------------- auto-deactivation effect
AutoDeactivateOneNever(p) ==
    IF p.mode # "distribute" \/ ~p.active THEN p
    ELSE LET sold      == SumBtc(p.executions)
             holdings  == IF p.btcHoldings = Undefined THEN 0 ELSE p.btcHoldings
             remaining == Max(0, holdings - sold)
         IN  IF remaining < 0 THEN [p EXCEPT !.active = FALSE] ELSE p

AutoDeactivateOne(p) ==
    IF p.mode # "distribute" \/ ~p.active THEN p
    ELSE LET sold      == SumBtc(p.executions)
             holdings  == IF p.btcHoldings = Undefined THEN 0 ELSE p.btcHoldings
             remaining == Max(0, holdings - sold)
         IN  IF remaining <= 0 THEN [p EXCEPT !.active = FALSE] ELSE p

AutoDeactivateFlipping(plans) ==
    [i \in Idx(plans) |->
       IF /\ plans[i].mode = "distribute" /\ plans[i].btcHoldings # Undefined
          /\ SumBtc(plans[i].executions) >= plans[i].btcHoldings
       THEN [plans[i] EXCEPT !.active = ~@] ELSE plans[i]]
AutoDeactivate(plans) == MapPlans(plans, AutoDeactivateOne)

\* --------------------------------------------------------- frequency engine
\* executions: [...(p.executions ?? []), newEx]
appendExecutionReplacing(execs, newEx) == <<newEx>>
appendExecution(execs, newEx) == Append(execs, newEx)

\* nextExecutionAt: new Date(now + freqMs).toISOString()
nextDueAtNow(t, freqMs) == toISOString(t)
nextDueAt(t, freqMs) == toISOString(t + freqMs)

frequencyEngineOne(p, t, c) ==
    IF p.type # "fixed" THEN p
    ELSE IF ~p.active \/ p.frequency = NoFrequency THEN p
    ELSE IF ~inRange(p, c.riskValue)
         THEN (IF p.nextExecutionAt # <<>>
               THEN [p EXCEPT !.nextExecutionAt = <<>>] ELSE p)
    ELSE LET freqMs    == getFrequencyIntervalMs(p.frequency)
             shouldRun == p.nextExecutionAt = <<>> \/ t >= getTime(p.nextExecutionAt)
             price     == getPriceAtRisk(c.allAssets, c.assetPriceUsd, p.asset_id, c.riskValue)
             btcNeeded == btcAmountOf(p.amountPerPurchase, price)
             sold      == SumBtc(p.executions)
             holdings  == IF p.btcHoldings = Undefined THEN 0 ELSE p.btcHoldings
             remaining == Max(0, holdings - sold)
             newEx     == [id |-> <<t, p.id>>, date |-> dateOf(toISOString(t)),
                           riskAtExecution |-> c.riskValue,
                           amountFiat |-> p.amountPerPurchase,
                           btcAmount |-> btcNeeded, pricePerBtc |-> price]
         IN  IF ~shouldRun THEN p
             ELSE IF p.mode = "distribute" /\ btcNeeded > remaining THEN p
             ELSE [p EXCEPT !.lastExecutionAt = toISOString(t),
                            !.nextExecutionAt = nextDueAt(t, freqMs),
                            !.executions = appendExecution(@, newEx)]

frequencyEngine(plans, t, c) ==
    [i \in Idx(plans) |-> frequencyEngineOne(plans[i], t, c)]

\* ----------------------------------------------------- level-crossing engine
\* levels.reduce((a, b) => |a - r| <= |b - r| ? a : b)
RECURSIVE ClosestFrom(_, _, _, _)
ClosestFrom(levels, i, a, r) ==
    IF i > Len(levels) THEN a
    ELSE ClosestFrom(levels, i + 1,
                     IF Abs(a - r) <= Abs(levels[i] - r) THEN a ELSE levels[i], r)

closestLevel(levels, r) == ClosestFrom(levels, 2, levels[1], r)

\* the keys of executedByLevel
executedLevelsNone(levels, execs) == {}
executedLevels(levels, execs) ==
    {closestLevel(levels, execs[k].riskAtExecution) : k \in 1..Len(execs)}

crossedNotExecuted(p, levels, risk) ==
    LET done == executedLevels(levels, p.executions)
        Crossed(L) == /\ (IF p.mode = "accumulate" THEN risk <= L ELSE risk >= L)
                      /\ L \notin done
    IN  SelectSeq(levels, Crossed)

\* The `break' of the loop over the crossed levels.
capReached(holdings, soldSoFar, btcAmount) ==
    Max(0, holdings - soldSoFar - btcAmount) < 0

\* for (const level of crossedNotExecuted) { ... newExecutions.push(...) }
RECURSIVE levelLoop(_, _, _, _, _, _)
levelLoop(p, crossed, i, newExecutions, t, c) ==
    IF i > Len(crossed) THEN newExecutions
    ELSE LET level      == crossed[i]
             amountFiat == getAmountAtRisk(p, level)
             price      == getPriceAtRisk(c.allAssets, c.assetPriceUsd, p.asset_id, level)
             btcAmount  == btcAmountOf(amountFiat, price)
             holdings   == IF p.btcHoldings = Undefined THEN 0 ELSE p.btcHoldings
             soldSoFar  == SumBtc(p.executions) + SumBtc(newExecutions)
             newEx      == [id |-> <<t, p.id, level>>, date |-> dateOf(toISOString(t)),
                            riskAtExecution |-> level, amountFiat |-> amountFiat,
                            btcAmount |-> btcAmount, pricePerBtc |-> price]
         IN  IF p.mode = "distribute" /\ capReached(holdings, soldSoFar, btcAmount)
             THEN newExecutions
             ELSE levelLoop(p, crossed, i + 1, Append(newExecutions, newEx), t, c)

levelCrossingEngineOne(p, t, c) ==
    IF p.type # "scaled" \/ ~p.active THEN p
    ELSE IF ~inRange(p, c.riskValue) THEN p
    ELSE LET levels    == getStrategyLevels(p)
             crossed   == crossedNotExecuted(p, levels, c.riskValue)
             holdings  == IF p.btcHoldings = Undefined THEN 0 ELSE p.btcHoldings
             remaining == Max(0, holdings - SumBtc(p.executions))
         IN  IF Len(crossed) = 0 THEN p
             ELSE IF p.mode = "distribute" /\ remaining <= 0 THEN p
             ELSE [p EXCEPT !.executions = @ \o levelLoop(p, crossed, 1, <<>>, t, c)]

levelCrossingEngineStamping(plans, t, c) ==
    [i \in Idx(plans) |->
       [levelCrossingEngineOne(plans[i], t, c) EXCEPT !.lastExecutionAt = toISOString(t)]]
levelCrossingEngine(plans, t, c) ==
    [i \in Idx(plans) |-> levelCrossingEngineOne(plans[i], t, c)]

\* setSavedPlans((prev) => levelCrossingEngine(frequencyEngine(prev)))
tick(plans, t, c) == levelCrossingEngine(frequencyEngine(plans, t, c), t, c)

\* A null element of a stored executions list (JSON null).
JsNull == [null |-> TRUE]
hasNull(execs) == \E k \in 1..Len(execs) : execs[k] = JsNull

\* The frequency engine reads e.btcAmount of every execution of a due
\* distribute strategy: a TypeError on a null element.
frequencyEngineThrows(p, t, c) ==
    /\ p.type = "fixed" /\ p.active /\ p.frequency # NoFrequency
    /\ inRange(p, c.riskValue)
    /\ (p.nextExecutionAt = <<>> \/ t >= getTime(p.nextExecutionAt))
    /\ p.mode = "distribute"
    /\ hasNull(p.executions)

\* The level-crossing engine calls getStrategyLevels, then reads
\* ex.riskAtExecution of every execution: a loop that never ends, or a
\* TypeError on a null element.
levelCrossingEngineEnters(p, c) ==
    p.type = "scaled" /\ p.active /\ inRange(p, c.riskValue)
levelCrossingEngineHangs(p, c) ==
    levelCrossingEngineEnters(p, c) /\ ~getStrategyLevelsReturns(p)
levelCrossingEngineThrows(p, c) ==
    /\ levelCrossingEngineEnters(p, c) /\ getStrategyLevelsReturns(p)
    /\ hasNull(p.executions)

\* How the updater of tick() ends: prev.map of the frequency engine, then
\* prev.map of the level-crossing engine (which sees the same scaled
\* strategies, since the frequency engine changes fixed strategies only);
\* the first strategy that throws or hangs ends the whole call.
tickOutcome(plans, t, c) ==
    IF \E i \in Idx(plans) : frequencyEngineThrows(plans[i], t, c) THEN "crashed"
    ELSE LET Stops(i) == \/ levelCrossingEngineHangs(plans[i], c)
                         \/ levelCrossingEngineThrows(plans[i], c)
         IN  IF \E i \in Idx(plans) : Stops(i)
             THEN LET first == CHOOSE i \in Idx(plans) :
                                  Stops(i) /\ \A j \in 1..(i - 1) : ~Stops(j)
                  IN  IF levelCrossingEngineHangs(plans[first], c)
                      THEN "hung" ELSE "crashed"
             ELSE "returns"

\* ------------------------------------------------------------ the builder
Builder(m, st, rng, f, holdings, step, pct) ==
    [dcaMode |-> m, strategyType |-> st,
     activeRiskStart |-> rng[1], activeRiskEnd |-> rng[2],
     frequency |-> f, investPerInterval |-> 1000, sellPerInterval |-> 1000,
     capital |-> 2000, btcHoldings |-> holdings,
     dynamicStepInterval |-> step, dynamicMultiplierPct |-> pct,
     alertsEnabled |-> FALSE]

\* The builder states the user can have entered when a strategy is saved.
\* btcHoldings is counted in 1/AssetScale coins: 0 (no cap), 0.01, 0.015 and
\* 0.5 BTC.
BuilderStates ==
    { Builder("accumulate", "fixed", <<60, 40>>, "daily", 50000, DefaultStep, 25),
      Builder("accumulate", "fixed", <<100, 80>>, "weekly", 50000, DefaultStep, 25),
      Builder("distribute", "fixed", <<40, 60>>, "daily", 1500, DefaultStep, 25),
      Builder("distribute", "fixed", <<80, 100>>, "daily", 0, DefaultStep, 25),
      Builder("accumulate", "dynamic", <<60, 40>>, "weekly", 50000, 10, 25),
      Builder("distribute", "dynamic", <<40, 60>>, "weekly", 1000, 10, 25),
      Builder("distribute", "dynamic", <<40, 60>>, "weekly", 50000, 10, 25) }

\* The builder states the user can have entered when an edit is confirmed.
EditStates ==
    { Builder("distribute", "dynamic", <<40, 60>>, "weekly", 1000, 10, 25) }

hasValidRange(b) ==
    /\ b.activeRiskStart >= 0 /\ b.activeRiskStart <= 100
    /\ b.activeRiskEnd >= 0 /\ b.activeRiskEnd <= 100
    /\ IF b.dcaMode = "accumulate" THEN b.activeRiskStart > b.activeRiskEnd
       ELSE b.activeRiskStart < b.activeRiskEnd

builderOrders(b) ==
    IF b.strategyType = "fixed" THEN <<>>
    ELSE ComputeOrders(b.dcaMode,
                       Min(b.activeRiskStart, b.activeRiskEnd),
                       Max(b.activeRiskStart, b.activeRiskEnd),
                       b.dynamicStepInterval, b.dynamicMultiplierPct,
                       IF b.dcaMode = "accumulate" THEN b.investPerInterval
                                                   ELSE b.sellPerInterval)

\* ------------------------------------------------------------- handlers
\* The strategy built by handleSaveStrategy / saveDraftAsStrategy.
newPlan(b, id, t, risk, assets, priceUsd, priceAsset, assetId, alerts) ==
    LET amount   == IF b.dcaMode = "accumulate" THEN b.investPerInterval
                                                 ELSE b.sellPerInterval
        minR     == Min(b.activeRiskStart, b.activeRiskEnd)
        maxR     == Max(b.activeRiskStart, b.activeRiskEnd)
        inActive == risk >= minR /\ risk <= maxR
        isFixed  == b.strategyType = "fixed"
        freqMs   == getFrequencyIntervalMs(b.frequency)
        price    == getPriceAtRisk(assets, priceUsd, priceAsset, risk)
        initEx   == [id |-> <<t>>, date |-> dateOf(toISOString(t)),
                     riskAtExecution |-> risk, amountFiat |-> amount,
                     btcAmount |-> btcAmountOf(amount, price), pricePerBtc |-> price]
    IN  [id |-> id,
         mode |-> b.dcaMode,
         strategyType |-> b.strategyType,
         type |-> IF isFixed THEN "fixed" ELSE "scaled",
         threshold |-> IF b.dcaMode = "accumulate" THEN maxR ELSE minR,
         activeRiskStart |-> Max(0, Min(100, b.activeRiskStart)),
         activeRiskEnd |-> Max(0, Min(100, b.activeRiskEnd)),
         frequency |-> IF isFixed THEN b.frequency ELSE NoFrequency,
         amountPerPurchase |-> amount,
         capital |-> IF b.dcaMode = "accumulate" THEN b.capital ELSE 0,
         btcHoldings |-> IF b.dcaMode = "distribute" THEN b.btcHoldings ELSE Undefined,
         alertsEnabled |-> alerts,
         active |-> inActive,
         activatedAt |-> IF inActive THEN toISOString(t) ELSE <<>>,
         lastExecutionAt |-> IF inActive /\ isFixed THEN toISOString(t) ELSE <<>>,
         nextExecutionAt |-> IF inActive /\ isFixed THEN toISOString(t + freqMs) ELSE <<>>,
         dynamicStepInterval |->
             IF b.dcaMode = "distribute" /\ b.strategyType = "dynamic"
             THEN b.dynamicStepInterval ELSE Undefined,
         dynamicMultiplierPct |->
             IF b.strategyType = "dynamic" THEN b.dynamicMultiplierPct ELSE Undefined,
         computedOrders |-> builderOrders(b),
         executions |-> IF inActive /\ isFixed THEN <<initEx>> ELSE <<>>,
         asset_id |-> assetId]

\* The strategy handleUpdateStrategy puts in place of `existing'.
updatedPlanFromBuilder(existing, b) ==
    [existing EXCEPT !.mode = b.dcaMode,
                     !.strategyType = b.strategyType,
                     !.type = IF b.strategyType = "fixed" THEN "fixed" ELSE "scaled"]
updatedPlan(existing, b) ==
    LET amount  == IF b.dcaMode = "accumulate" THEN b.investPerInterval
                                                ELSE b.sellPerInterval
        minR    == Min(b.activeRiskStart, b.activeRiskEnd)
        maxR    == Max(b.activeRiskStart, b.activeRiskEnd)
        isFixed == b.strategyType = "fixed"
    IN  [existing EXCEPT
           !.threshold = IF b.dcaMode = "accumulate" THEN maxR ELSE minR,
           !.activeRiskStart = Max(0, Min(100, b.activeRiskStart)),
           !.activeRiskEnd = Max(0, Min(100, b.activeRiskEnd)),
           !.amountPerPurchase = amount,
           !.frequency = IF isFixed THEN b.frequency ELSE NoFrequency,
           !.capital = IF b.dcaMode = "accumulate" THEN b.capital ELSE 0,
           !.btcHoldings = IF b.dcaMode = "distribute" THEN b.btcHoldings ELSE Undefined,
           !.alertsEnabled = b.alertsEnabled,
           !.dynamicStepInterval =
               IF b.dcaMode = "distribute" /\ b.strategyType = "dynamic"
               THEN b.dynamicStepInterval ELSE Undefined,
           !.dynamicMultiplierPct =
               IF b.strategyType = "dynamic" THEN b.dynamicMultiplierPct ELSE Undefined,
           !.computedOrders = IF isFixed THEN existing.computedOrders ELSE builderOrders(b),
           !.executions = existing.executions]

setPlanActiveOneRestamping(p, active, t) ==
    IF active
    THEN [p EXCEPT !.active = TRUE,
                   !.activatedAt = toISOString(t),
                   !.nextExecutionAt = IF p.strategyType = "fixed" THEN <<>> ELSE @]
    ELSE [p EXCEPT !.active = FALSE]
setPlanActiveOne(p, active, t) ==
    IF active
    THEN [p EXCEPT !.active = TRUE,
                   !.activatedAt = IF p.activatedAt = <<>> THEN toISOString(t) ELSE @,
                   !.nextExecutionAt = IF p.strategyType = "fixed" THEN <<>> ELSE @]
    ELSE [p EXCEPT !.active = FALSE]

getPlanStatusDisplayInRange(plan, risk) ==
    LET b == getActiveRiskBounds(plan)
    IN  IF risk >= b.minR /\ risk <= b.maxR THEN "ACTIVE" ELSE "WAITING FOR ENTRY"
getPlanStatusDisplay(plan, risk) ==
    LET b == getActiveRiskBounds(plan)
        inActiveRange == risk >= b.minR /\ risk <= b.maxR
    IN  IF inActiveRange /\ plan.active THEN "ACTIVE" ELSE "WAITING FOR ENTRY"

\* JSON.parse of the stored list, with the defaults of loadSavedStrategies.
loadSavedStrategies(raw) ==
    [i \in Idx(raw) |->
       [raw[i] EXCEPT
          !.activeRiskStart = IF @ = Undefined
                              THEN (IF raw[i].mode = "accumulate" THEN 80 ELSE 50) ELSE @,
          !.activeRiskEnd = IF @ = Undefined
                            THEN (IF raw[i].mode = "accumulate" THEN 0 ELSE 100) ELSE @]]

\* The risk sync effect (deps: effectiveAsset, allAssets).
syncedRisk(asset, assets, risk) ==
    IF asset = NoAssetId \/ ~assets[asset].present THEN risk
    ELSE assets[asset].risk_score
syncedPrice(asset, assets, priceUsd) ==
    IF asset = NoAssetId \/ ~assets[asset].present THEN priceUsd
    ELSE assets[asset].price

\* --------------------------------------------------------------- actions
\* Every setSavedPlans is followed by the two effects on [savedPlans]:
\* the persist effect and the auto-deactivation effect (whose own update,
\* if any, is persisted in turn).
Commit(plans) ==
    /\ savedPlans' = AutoDeactivate(plans)
    /\ store' = savedPlans'

Init ==
    /\ savedPlans = <<>>
    /\ store = <<>>
    /\ phase = "render1"
    /\ riskValue = RiskValueInit
    /\ assetPriceUsd = AssetPriceInit
    /\ allAssets = NoAssets
    /\ builderAsset = NoAssetId
    /\ tickClosure = [riskValue |-> RiskValueInit, allAssets |-> NoAssets,
                      assetPriceUsd |-> AssetPriceInit]
    /\ now = 0
    /\ nextId = 0

\* The effects of the first commit, in source order: the load effect sees
\* mounted = false, the persist effect writes the (empty) list, the tick
\* effect captures the render's values, starts the timer and ticks once.
FirstEffects ==
    /\ phase = "render1"
    /\ phase' = "mounting"
    /\ tickClosure' = [riskValue |-> riskValue, allAssets |-> allAssets,
                       assetPriceUsd |-> assetPriceUsd]
    /\ Commit(tick(savedPlans, now, tickClosure'))
    /\ UNCHANGED <<riskValue, assetPriceUsd, allAssets, builderAsset, now, nextId>>

\* The render after setMounted(true): the load effect reads the store.
LoadEffect ==
    /\ phase = "mounting"
    /\ phase' = "mounted"
    /\ Commit(loadSavedStrategies(store))
    /\ UNCHANGED <<riskValue, assetPriceUsd, allAssets, builderAsset,
                   tickClosure, now, nextId>>

\* The page is loaded again: a new component instance on the same
\* localStorage, its first render and the effects of its first commit.
Reload ==
    /\ phase = "mounted"
    /\ phase' = "mounting"
    /\ riskValue' = RiskValueInit
    /\ assetPriceUsd' = AssetPriceInit
    /\ allAssets' = NoAssets
    /\ builderAsset' = NoAssetId
    /\ tickClosure' = [riskValue |-> riskValue', allAssets |-> allAssets',
                       assetPriceUsd |-> assetPriceUsd']
    /\ Commit(tick(<<>>, now, tickClosure'))
    /\ UNCHANGED <<now, nextId>>

\* fetch("/api/risk") resolves; the risk sync effect runs.
FetchResolved(feed) ==
    /\ phase = "mounted"
    /\ allAssets = NoAssets
    /\ allAssets' = feed
    /\ riskValue' = syncedRisk(builderAsset, feed, riskValue)
    /\ assetPriceUsd' = syncedPrice(builderAsset, feed, assetPriceUsd)
    /\ UNCHANGED <<savedPlans, store, phase, builderAsset, tickClosure, now, nextId>>

\* The user picks an asset in the Strategy Builder; the risk sync effect runs.
SetBuilderAsset(a) ==
    /\ phase = "mounted"
    /\ a # builderAsset
    /\ builderAsset' = a
    /\ riskValue' = syncedRisk(a, allAssets, riskValue)
    /\ assetPriceUsd' = syncedPrice(a, allAssets, assetPriceUsd)
    /\ UNCHANGED <<savedPlans, store, phase, allAssets, tickClosure, now, nextId>>

AdvanceSteps == {DAY}

Advance(d) ==
    /\ now + d <= MaxDays * DAY
    /\ now' = now + d
    /\ UNCHANGED <<savedPlans, store, phase, riskValue, assetPriceUsd, allAssets,
                   builderAsset, tickClosure, nextId>>

\* The timer fires.  An updater that throws takes the page down, one that
\* never returns freezes it; in both cases the list is not updated.
Tick ==
    /\ phase = "mounted"
    /\ LET outcome == tickOutcome(savedPlans, now, tickClosure)
       IN  IF outcome = "returns"
           THEN /\ Commit(tick(savedPlans, now, tickClosure))
                /\ CountExecs(savedPlans') <= MaxExecs
                /\ phase' = phase
           ELSE /\ phase' = outcome
                /\ UNCHANGED <<savedPlans, store>>
    /\ UNCHANGED <<riskValue, assetPriceUsd, allAssets, builderAsset,
                   tickClosure, now, nextId>>

HandleSaveStrategy(b) ==
    /\ phase = "mounted"
    /\ nextId < MaxPlans
    /\ hasValidRange(b)
    /\ nextId' = nextId + 1
    /\ LET priceAsset == IF builderAsset = NoAssetId THEN "BTC" ELSE builderAsset
       IN  Commit(Append(savedPlans,
                  newPlan(b, nextId', now, riskValue, allAssets, assetPriceUsd,
                          priceAsset, priceAsset, b.alertsEnabled)))
    /\ UNCHANGED <<phase, riskValue, assetPriceUsd, allAssets, builderAsset,
                   tickClosure, now>>

SaveDraftAsStrategy(b) ==
    /\ phase = "mounted"
    /\ nextId < MaxPlans
    /\ hasValidRange(b)
    /\ nextId' = nextId + 1
    /\ LET assetId == IF builderAsset = NoAssetId THEN "BTC" ELSE builderAsset
       IN  Commit(Append(savedPlans,
                  newPlan(b, nextId', now, riskValue, allAssets, assetPriceUsd,
                          assetId, assetId, FALSE)))
    /\ UNCHANGED <<phase, riskValue, assetPriceUsd, allAssets, builderAsset,
                   tickClosure, now>>

HandleUpdateStrategy(id, b) ==
    /\ phase = "mounted"
    /\ id \in Ids(savedPlans)
    /\ hasValidRange(b)
    /\ LET updated == updatedPlan(PlanOf(savedPlans, id), b)
           Repl(p) == IF p.id = id THEN updated ELSE p
       IN  Commit(MapPlans(savedPlans, Repl))
    /\ UNCHANGED <<phase, riskValue, assetPriceUsd, allAssets, builderAsset,
                   tickClosure, now, nextId>>

DeletePlan(id) ==
    /\ phase = "mounted"
    /\ id \in Ids(savedPlans)
    /\ LET Keep(p) == p.id # id
       IN  Commit(SelectSeq(savedPlans, Keep))
    /\ UNCHANGED <<phase, riskValue, assetPriceUsd, allAssets, builderAsset,
                   tickClosure, now, nextId>>

SetPlanActive(id, active) ==
    /\ phase = "mounted"
    /\ id \in Ids(savedPlans)
    /\ LET Set(p) == IF p.id # id THEN p ELSE setPlanActiveOne(p, active, now)
       IN  Commit(MapPlans(savedPlans, Set))
    /\ UNCHANGED <<phase, riskValue, assetPriceUsd, allAssets, builderAsset,
                   tickClosure, now, nextId>>

SetPlanAlerts(id, alertsEnabled) ==
    /\ phase = "mounted"
    /\ id \in Ids(savedPlans)
    /\ LET Set(p) == IF p.id = id THEN [p EXCEPT !.alertsEnabled = alertsEnabled] ELSE p
       IN  Commit(MapPlans(savedPlans, Set))
    /\ UNCHANGED <<phase, riskValue, assetPriceUsd, allAssets, builderAsset,
                   tickClosure, now, nextId>>

PlanIds == 1..MaxPlans

Next ==
    \/ FirstEffects
    \/ LoadEffect
    \/ Reload
    \/ \E feed \in Feeds : FetchResolved(feed)
    \/ \E a \in Assets \cup {NoAssetId} : SetBuilderAsset(a)
    \/ \E d \in AdvanceSteps : Advance(d)
    \/ Tick
    \/ \E b \in BuilderStates : HandleSaveStrategy(b)
    \/ \E b \in BuilderStates : SaveDraftAsStrategy(b)
    \/ \E id \in PlanIds, b \in EditStates : HandleUpdateStrategy(id, b)
    \/ \E id \in PlanIds : DeletePlan(id)
    \/ \E id \in PlanIds, active \in BOOLEAN : SetPlanActive(id, active)
    \/ \E id \in PlanIds, al \in BOOLEAN : SetPlanAlerts(id, al)

Spec == Init /\ [][Next]_vars

\* ------------------------------------------- the engine on stored lists
\* A strategy as JSON.parse hands it to the engine: the fields that
\* handleSaveStrategy writes, with any step a stored record can hold.
Stored(id, mode, st, rng, f, step, execs) ==
    [id |-> id,
     mode |-> mode,
     strategyType |-> st,
     type |-> IF st = "fixed" THEN "fixed" ELSE "scaled",
     threshold |-> IF mode = "accumulate" THEN rng[2] ELSE rng[1],
     activeRiskStart |-> IF mode = "accumulate" THEN rng[2] ELSE rng[1],
     activeRiskEnd |-> IF mode = "accumulate" THEN rng[1] ELSE rng[2],
     frequency |-> f,
     amountPerPurchase |-> 1000,
     capital |-> IF mode = "accumulate" THEN 2000 ELSE 0,
     btcHoldings |-> IF mode = "distribute" THEN 50000 ELSE Undefined,
     alertsEnabled |-> FALSE,
     active |-> TRUE,
     activatedAt |-> toISOString(0),
     lastExecutionAt |-> <<>>,
     nextExecutionAt |-> <<>>,
     dynamicStepInterval |-> step,
     dynamicMultiplierPct |-> IF st = "dynamic" THEN 25 ELSE Undefined,
     computedOrders |-> <<>>,
     executions |-> execs,
     asset_id |-> "BTC"]

StoredRanges == {<<20, 80>>, <<0, 100>>, <<40, 60>>}
StoredSteps  == {Undefined, 0 - 5, 0, 15, 20, 25}

StoredScaled ==
    { Stored(1, m, "dynamic", rng, NoFrequency, step, <<>>) :
        m \in {"accumulate", "distribute"}, rng \in StoredRanges,
        step \in StoredSteps }

\* A fixed strategy that is due, a scaled strategy with a null execution,
\* and a scaled strategy whose step is zero.
StoredDue      == Stored(2, "accumulate", "fixed", <<0, 100>>, "daily", Undefined, <<>>)
StoredNullExec == Stored(1, "accumulate", "dynamic", <<20, 80>>, NoFrequency, 20, <<JsNull>>)
StoredZeroStep == Stored(1, "accumulate", "dynamic", <<20, 80>>, NoFrequency, 0, <<>>)

\* A scheduled fixed strategy whose range does not contain the risk the
\* tick evaluates with, and a well-formed scaled strategy.
StoredPaused ==
    [Stored(2, "accumulate", "fixed", <<60, 100>>, "daily", Undefined, <<>>)
       EXCEPT !.nextExecutionAt = toISOString(DAY)]
StoredLevels == Stored(1, "accumulate", "dynamic", <<20, 80>>, NoFrequency, 20, <<>>)

StoredLists ==
    { <<p>> : p \in StoredScaled } \cup
    { <<StoredDue>>, <<StoredNullExec>>,
      <<StoredNullExec, StoredDue>>, <<StoredDue, StoredNullExec>>,
      <<StoredZeroStep, StoredDue>>, <<StoredDue, StoredZeroStep>>,
      <<StoredLevels, StoredDue>>, <<StoredLevels, StoredPaused>> }

\* The mounted page holding a stored list.
EngineInit ==
    /\ savedPlans \in StoredLists
    /\ store = savedPlans
    /\ phase = "mounted"
    /\ riskValue = RiskValueInit
    /\ assetPriceUsd = AssetPriceInit
    /\ allAssets = NoAssets
    /\ builderAsset = NoAssetId
    /\ tickClosure = [riskValue |-> RiskValueInit, allAssets |-> NoAssets,
                      assetPriceUsd |-> AssetPriceInit]
    /\ now = 0
    /\ nextId = Len(savedPlans)

EngineNext ==
    \/ Tick
    \/ \E d \in AdvanceSteps : Advance(d)
    \/ \E id \in {1, 2}, active \in BOOLEAN : SetPlanActive(id, active)

EngineSpec == EngineInit /\ [][EngineNext]_vars

\* --------------------------------------------- the builder on risk feeds
\* Payloads of GET /api/risk with other anchors: integers whose quotient is
\* or is not a double, and anchors that are not positive.
Anchors == {<<100, 102400>>, <<7, 28>>, <<7, 29>>, <<7, 61>>, <<0, 29>>, <<7, 0>>}
PriceFeeds ==
    { [a \in Assets |->
         [present |-> TRUE, risk_score |-> r, price |-> 67000,
          hasComponents |-> TRUE, floor_price |-> an[1], ceiling_price |-> an[2]]] :
      r \in {0, 100}, an \in Anchors }

\* The mounted page after the feed resolved and the asset was selected.
PriceInit ==
    /\ savedPlans = <<>>
    /\ store = <<>>
    /\ phase = "mounted"
    /\ allAssets \in PriceFeeds
    /\ builderAsset = "BTC"
    /\ riskValue = syncedRisk(builderAsset, allAssets, RiskValueInit)
    /\ assetPriceUsd = syncedPrice(builderAsset, allAssets, AssetPriceInit)
    /\ tickClosure = [riskValue |-> RiskValueInit, allAssets |-> NoAssets,
                      assetPriceUsd |-> AssetPriceInit]
    /\ now = 0
    /\ nextId = 0

PriceNext ==
    \/ \E b \in BuilderStates : HandleSaveStrategy(b)
    \/ \E b \in BuilderStates : SaveDraftAsStrategy(b)
    \/ \E id \in PlanIds : DeletePlan(id)
    \/ \E id \in PlanIds, active \in BOOLEAN : SetPlanActive(id, active)
    \/ \E d \in AdvanceSteps : Advance(d)
    \/ Tick

PriceSpec == PriceInit /\ [][PriceNext]_vars

\* ================================================================ claims
IsPrefix(s, t) == Len(s) <= Len(t) /\ SubSeq(t, 1, Len(s)) = s
Kept == Ids(savedPlans) \cap Ids(savedPlans')
NewExecs(p, q) == SubSeq(q.executions, Len(p.executions) + 1, Len(q.executions))
Seen == Idx(savedPlans)
\* what the next tick makes of the i-th strategy
Ticked(i) == tick(savedPlans, now, tickClosure)[i]

\* C1: a tick appends nothing to a strategy that is inactive or whose
\* normalized active range does not contain the current risk.
C1_NoExecutionOutsideRange ==
    [][\A id \in Kept :
         LET p == PlanOf(savedPlans, id)
             q == PlanOf(savedPlans', id)
         IN  (~p.active \/ ~inRange(p, riskValue)) => q.executions = p.executions]_vars

\* C2: after a tick that appended executions to a distribute scaled strategy
\* with assetCap > 0, the sum of assetAmount over its executions is at most
\* assetCap.
C2_CapRespected ==
    [][\A id \in Kept :
         LET p == PlanOf(savedPlans, id)
             q == PlanOf(savedPlans', id)
         IN  (/\ Len(q.executions) > Len(p.executions)
              /\ q.mode = "distribute" /\ q.type = "scaled" /\ q.btcHoldings > 0)
             => SumBtc(q.executions) <= q.btcHoldings]_vars

\* C3: for an active scaled strategy whose range contains the current risk, a
\* tick appends exactly one execution per planned level that the current risk
\* has crossed and that is not filled, with riskAtExecution = L and
\* pricePerUnit = priceAtRisk(L).
C3_AllCrossedLevelsFire ==
    \A i \in Seen :
      LET p       == savedPlans[i]
          crossed == crossedNotExecuted(p, getStrategyLevels(p), riskValue)
          new     == NewExecs(p, Ticked(i))
      IN  (phase = "mounted" /\ p.type = "scaled" /\ p.active /\ inRange(p, riskValue))
          => /\ Len(new) = Len(crossed)
             /\ \A k \in 1..Len(new) :
                  /\ new[k].riskAtExecution = crossed[k]
                  /\ new[k].pricePerBtc =
                       getPriceAtRisk(allAssets, assetPriceUsd, p.asset_id, crossed[k])

\* C4: for an active fixed strategy with a frequency that is in range of the
\* current risk and due, a tick appends exactly one execution at the current
\* risk and its price, of amountPerOrder, and sets lastExecutionAt = now and
\* nextExecutionAt = now + the frequency interval.
C4_DueFixedFires ==
    \A i \in Seen :
      LET p   == savedPlans[i]
          q   == Ticked(i)
          new == NewExecs(p, q)
          due == p.nextExecutionAt = <<>> \/ now >= getTime(p.nextExecutionAt)
      IN  (/\ phase = "mounted" /\ p.type = "fixed" /\ p.active
           /\ p.frequency # NoFrequency /\ inRange(p, riskValue) /\ due)
          => /\ Len(new) = 1
             /\ new[1].riskAtExecution = riskValue
             /\ new[1].amountFiat = p.amountPerPurchase
             /\ new[1].pricePerBtc =
                  getPriceAtRisk(allAssets, assetPriceUsd, p.asset_id, riskValue)
             /\ q.lastExecutionAt = toISOString(now)
             /\ q.nextExecutionAt = toISOString(now + getFrequencyIntervalMs(p.frequency))

RiskSamples == {0, 40, 50, 60, 90, 100}
EngineAt(r) == [tickClosure EXCEPT !.riskValue = r]
NotYetDue(p) ==
    p.type = "fixed" /\ p.nextExecutionAt # <<>> /\ getTime(p.nextExecutionAt) > now

\* C5 (as stated): the frequency engine changes nothing of a fixed strategy
\* whose nextExecutionAt is in the future.
C5_FutureDueUnchanged ==
    \A i \in Seen :
      NotYetDue(savedPlans[i])
        => frequencyEngineOne(savedPlans[i], now, tickClosure) = savedPlans[i]

\* C5 (amended): for a fixed strategy whose nextExecutionAt is in the future
\* the frequency engine appends nothing; it changes nothing when the strategy
\* is inactive or the engine's risk is inside the active range, and otherwise
\* only clears nextExecutionAt.  Applied twice in succession with the same now
\* and risk it appends at most one execution to any strategy, and the second
\* application changes nothing.
C5_FrequencyEngineIdempotent ==
    \A i \in Seen : \A r \in RiskSamples :
      LET p  == savedPlans[i]
          q1 == frequencyEngineOne(p, now, EngineAt(r))
          q2 == frequencyEngineOne(q1, now, EngineAt(r))
      IN  /\ NotYetDue(p) =>
               /\ q1.executions = p.executions
               /\ (~p.active \/ inRange(p, r)) => q1 = p
               /\ q1 = p \/ q1 = [p EXCEPT !.nextExecutionAt = <<>>]
          /\ Len(q2.executions) <= Len(p.executions) + 1
          /\ q2 = q1

\* An active fixed strategy in range of the engine's risk that the frequency
\* engine has fired (an execution with the engine's id) and that is not due.
C5_Witness ==
    \E i \in Seen :
      LET p == savedPlans[i]
      IN  /\ NotYetDue(p) /\ p.active /\ inRange(p, tickClosure.riskValue)
          /\ \E k \in 1..Len(p.executions) : p.executions[k].id = <<now, p.id>>

\* C6: the risk value a tick evaluates with is the value most recently
\* supplied by the risk feed.
C6_TickUsesCurrentRisk ==
    phase = "mounted" => tickClosure.riskValue = riskValue

\* C7: a strategy that was saved to the store stays in the store and in the
\* in-memory list unless deletePlan is called with its id.
C7_OnlyDeleteDestroys ==
    [][\A id \in Ids(store) :
         \/ id \in Ids(store') /\ id \in Ids(savedPlans')
         \/ DeletePlan(id)]_vars

\* C8: the executions list of a strategy is append-only: across ticks, active
\* toggles, alert toggles and edits the earlier list is a prefix of the later.
C8_ExecutionsAppendOnly ==
    [][\A id \in Kept :
         IsPrefix(PlanOf(savedPlans, id).executions,
                  PlanOf(savedPlans', id).executions)]_vars

\* A strategy that was edited after two executions were appended to it (the
\* edit state is the only source of a distribute plan with these fields on an
\* accumulate strategy).
C8_Witness ==
    \E i \in Seen :
      LET p == savedPlans[i]
      IN  /\ Len(p.executions) >= 2
          /\ p.mode = "accumulate" /\ p.btcHoldings = 1000

\* C9: for a scaled strategy with a persisted computedOrders list the
\* level-crossing engine uses the list verbatim: its levels are the risk
\* values of computedOrders and every execution it appends has the amountFiat
\* stored for its level.
C9_ComputedOrdersVerbatim ==
    \A i \in Seen :
      LET p      == savedPlans[i]
          orders == p.computedOrders
          new    == NewExecs(p, Ticked(i))
      IN  (p.type = "scaled" /\ Len(orders) > 0)
          => /\ getStrategyLevels(p) = [k \in 1..Len(orders) |-> orders[k].risk]
             /\ \A k \in 1..Len(new) :
                  \E j \in 1..Len(orders) :
                    /\ orders[j].risk = new[k].riskAtExecution
                    /\ orders[j].amountFiat = new[k].amountFiat

\* C10: once the reactive update has settled, no distribute strategy with
\* cap > 0 whose executions' assetAmount sum is >= cap is active.
C10_ExhaustedIsInactive ==
    \A i \in Seen :
      LET p == savedPlans[i]
      IN  (/\ p.mode = "distribute" /\ p.btcHoldings > 0
           /\ SumBtc(p.executions) >= p.btcHoldings)
          => ~p.active

\* A distribute strategy that was activated, sold its cap and is inactive.
C10_Witness ==
    \E i \in Seen :
      LET p == savedPlans[i]
      IN  /\ p.mode = "distribute" /\ p.btcHoldings > 0
          /\ SumBtc(p.executions) >= p.btcHoldings
          /\ p.activatedAt # <<>> /\ ~p.active

\* ----------------------------------------------------------------------
RECURSIVE SumFiat(_)
SumFiat(execs) ==
    IF Len(execs) = 0 THEN 0 ELSE execs[1].amountFiat + SumFiat(Tail(execs))

Uncapped(p) ==
    p.mode = "distribute" /\ (p.btcHoldings = Undefined \/ p.btcHoldings = 0)

\* C11: a distribute strategy whose assetCap is 0 or absent is uncapped: once
\* switched on it is not auto-deactivated, and neither engine skips an
\* execution of it for lack of remaining asset (a due fixed strategy in the
\* engine's range fires, and every crossed unfilled level of a scaled one
\* fires).
C11_UncappedNeverStops ==
    \A i \in Seen :
      LET p  == savedPlans[i]
          a  == setPlanActiveOne(p, TRUE, now)
          r  == tickClosure.riskValue
          qf == frequencyEngineOne(a, now, tickClosure)
          ql == levelCrossingEngineOne(a, now, tickClosure)
      IN  (phase = "mounted" /\ Uncapped(p))
          => /\ AutoDeactivateOne(a).active
             /\ (a.type = "fixed" /\ a.frequency # NoFrequency /\ inRange(a, r))
                  => Len(qf.executions) = Len(a.executions) + 1
             /\ (a.type = "scaled" /\ inRange(a, r))
                  => Len(ql.executions) = Len(a.executions)
                       + Len(crossedNotExecuted(a, getStrategyLevels(a), r))

\* C12: capital is a total budget ceiling: the sum of amountFiat over the
\* executions of an accumulate strategy never exceeds its capital.
C12_CapitalCeiling ==
    \A i \in Seen :
      LET p == savedPlans[i]
      IN  p.mode = "accumulate" => SumFiat(p.executions) <= p.capital

\* C13: after a tick in which the current risk is outside the normalized
\* active range of a fixed strategy, its nextExecutionAt is unset, whether or
\* not it is active and whether or not it has a frequency.
C13_ClearedOutOfRange ==
    \A i \in Seen :
      LET p == savedPlans[i]
      IN  (phase = "mounted" /\ p.type = "fixed" /\ ~inRange(p, riskValue))
          => Ticked(i).nextExecutionAt = <<>>

\* C14: a tick leaves a due, active, in-range fixed distribute strategy
\* completely unchanged when its remaining asset (cap minus sold, floored at
\* 0) is less than amountPerOrder / priceAtRisk(current risk).
C14_InsufficientAssetSkips ==
    \A i \in Seen :
      LET p         == savedPlans[i]
          due       == p.nextExecutionAt = <<>> \/ now >= getTime(p.nextExecutionAt)
          holdings  == IF p.btcHoldings = Undefined THEN 0 ELSE p.btcHoldings
          remaining == Max(0, holdings - SumBtc(p.executions))
          price     == getPriceAtRisk(allAssets, assetPriceUsd, p.asset_id, riskValue)
          needed    == IF price > 0 THEN (p.amountPerPurchase * AssetScale) \div price
                       ELSE 0
      IN  (/\ phase = "mounted" /\ p.type = "fixed" /\ p.mode = "distribute"
           /\ p.active /\ p.frequency # NoFrequency /\ inRange(p, riskValue)
           /\ due /\ remaining < needed)
          => Ticked(i) = p

\* C15: every execution record satisfies assetAmount = amountFiat /
\* pricePerUnit when pricePerUnit > 0 and assetAmount = 0 otherwise (the
\* expression that computes it gives 0 at a price of 0 or below).
C15_AssetAmountInvariant ==
    /\ \A i \in Seen : \A k \in 1..Len(savedPlans[i].executions) :
         LET e == savedPlans[i].executions[k]
         IN  IF e.pricePerBtc > 0
             THEN e.btcAmount = (e.amountFiat * AssetScale) \div e.pricePerBtc
             ELSE e.btcAmount = 0
    /\ \A price \in {0 - 1, 0} : btcAmountOf(1000, price) = 0

\* A strategy holding an execution written by the save handler (id
\* exec-<now>) and one written by the frequency engine (id exec-<now>-<plan>).
C15_Witness ==
    \E i \in Seen :
      LET execs == savedPlans[i].executions
      IN  /\ \E k \in 1..Len(execs) : Len(execs[k].id) = 1 /\ execs[k].btcAmount > 0
          /\ \E k \in 1..Len(execs) : Len(execs[k].id) = 2 /\ execs[k].btcAmount > 0

\* C16: a strategy is created with an empty executions list, and executions
\* are appended only by a tick of the engines.
C16_OnlyEngineCreates ==
    [][/\ \A id \in Ids(savedPlans') \ Ids(savedPlans) :
            PlanOf(savedPlans', id).executions = <<>>
       /\ \A id \in Kept :
            PlanOf(savedPlans', id).executions # PlanOf(savedPlans, id).executions
              => Tick]_vars

StepOf(p) == IF p.dynamicStepInterval = Undefined THEN 5 ELSE p.dynamicStepInterval

\* C17: getStrategyLevels returns maxR, maxR - step, ... down to the last
\* value >= minR for an accumulate strategy and minR, minR + step, ... up to
\* the last value <= maxR for a distribute strategy, with step = levelStep or
\* 5 when unset; the levels lie in [minR, maxR], are strictly monotone and
\* start at maxR (accumulate) or minR (distribute).
C17_LevelPlanner ==
    \A i \in Seen :
      LET p      == savedPlans[i]
          b      == getActiveRiskBounds(p)
          step   == StepOf(p)
          levels == getStrategyLevels(p)
      IN  step > 0
          => /\ Len(levels) = (b.maxR - b.minR) \div step + 1
             /\ \A k \in 1..Len(levels) :
                  /\ levels[k] = IF p.mode = "accumulate"
                                 THEN b.maxR - (k - 1) * step
                                 ELSE b.minR + (k - 1) * step
                  /\ levels[k] >= b.minR /\ levels[k] <= b.maxR
             /\ \A k \in 1..(Len(levels) - 1) :
                  IF p.mode = "accumulate" THEN levels[k + 1] < levels[k]
                                           ELSE levels[k + 1] > levels[k]

\* The accumulate strategy on [20, 80] with step 20, planned as 80, 60, 40,
\* 20, after the tick at risk 50 that filled its levels 80 and 60.
C17_Witness ==
    \E i \in Seen :
      LET p == savedPlans[i]
      IN  /\ p.mode = "accumulate" /\ p.dynamicStepInterval = 20
          /\ getStrategyLevels(p) = <<80, 60, 40, 20>>
          /\ Len(p.executions) = 2
          /\ p.executions[1] # JsNull /\ p.executions[1].riskAtExecution = 80
          /\ p.executions[2].riskAtExecution = 60

ExampleLevels == <<100, 75, 50, 25, 0>>
IsExample(p) ==
    /\ p.mode = "accumulate" /\ p.strategyType = "dynamic"
    /\ p.amountPerPurchase = 1000 /\ p.dynamicMultiplierPct = 25
    /\ p.dynamicStepInterval = 25
    /\ getActiveRiskBounds(p).minR = 0 /\ getActiveRiskBounds(p).maxR = 100

IsRounded(x, num, den) == 2 * num - den < 2 * x * den /\ 2 * x * den <= 2 * num + den

C19_PerStrategyIsolation ==
    [][phase' = "crashed"
         => \A j \in Seen :
              (/\ ~frequencyEngineThrows(savedPlans[j], now, tickClosure)
               /\ ~levelCrossingEngineThrows(savedPlans[j], tickClosure)
               /\ ~levelCrossingEngineHangs(savedPlans[j], tickClosure))
              => savedPlans'[j].executions =
                   levelCrossingEngineOne(
                     frequencyEngineOne(savedPlans[j], now, tickClosure),
                     now, tickClosure).executions]_vars

\* C20: the level planner returns for every stored strategy, whatever its
\* step, and so a tick over any list of strategies completes.
C20_PlannerTerminates ==
    /\ \A i \in Seen : getStrategyLevelsReturns(savedPlans[i])
    /\ phase # "hung"

\* ----------------------------------------------------------------------
\* C21: id, asset_id, mode and type of a strategy keep the value given at
\* creation across ticks, toggles and edits, whatever the builder holds at
\* edit time (the strategies are compared position by position in every
\* step that removes none).
C21_ImmutableFields ==
    [][Len(savedPlans') >= Len(savedPlans)
         => \A i \in Seen :
              /\ savedPlans'[i].id = savedPlans[i].id
              /\ savedPlans'[i].asset_id = savedPlans[i].asset_id
              /\ savedPlans'[i].mode = savedPlans[i].mode
              /\ savedPlans'[i].type = savedPlans[i].type]_vars

\* A fixed accumulate strategy edited while the builder held a distribute
\* scaled configuration (the only source of a step of 10 on a fixed strategy).
C21_Witness ==
    \E i \in Seen :
      LET p == savedPlans[i]
      IN  p.mode = "accumulate" /\ p.type = "fixed" /\ p.dynamicStepInterval = 10

\* C22: toggling active to true sets activatedAt to now only if it was unset,
\* leaves nextExecutionAt of a scaled strategy unchanged and leaves a fixed
\* strategy without nextExecutionAt; toggling to false changes no field other
\* than active; no toggle changes any further field.
C22_ToggleFrame ==
    [][\A id \in Ids(savedPlans) :
         /\ SetPlanActive(id, TRUE) =>
              LET p == PlanOf(savedPlans, id)
                  q == PlanOf(savedPlans', id)
              IN  /\ q.activatedAt = IF p.activatedAt = <<>>
                                     THEN <<now \div DAY, now % DAY>> ELSE p.activatedAt
                  /\ p.type = "scaled" => q.nextExecutionAt = p.nextExecutionAt
                  /\ p.type = "fixed" => q.nextExecutionAt = <<>>
                  /\ q = [p EXCEPT !.active = q.active,
                                   !.activatedAt = q.activatedAt,
                                   !.nextExecutionAt = q.nextExecutionAt]
         /\ SetPlanActive(id, FALSE) =>
              PlanOf(savedPlans', id) = [PlanOf(savedPlans, id) EXCEPT !.active = FALSE]]_vars

\* A fixed strategy activated on day 0 and switched on again on day 1: it
\* keeps its activatedAt and has no nextExecutionAt.
C22_Witness ==
    \E i \in Seen :
      LET p == savedPlans[i]
      IN  /\ p.type = "fixed" /\ p.mode = "accumulate" /\ p.activeRiskStart = 60
          /\ p.active /\ p.activatedAt = <<0, 0>> /\ now = DAY
          /\ p.nextExecutionAt = <<>> /\ Len(p.executions) >= 1

\* C23: the status of a strategy at a risk is ACTIVE iff the strategy is
\* active and the risk lies in the closed range between its two bounds, and
\* WAITING FOR ENTRY otherwise.
C23_StatusDerivation ==
    \A i \in Seen : \A r \in RiskSamples \cup {riskValue} :
      LET p  == savedPlans[i]
          lo == IF p.activeRiskStart <= p.activeRiskEnd
                THEN p.activeRiskStart ELSE p.activeRiskEnd
          hi == IF p.activeRiskStart <= p.activeRiskEnd
                THEN p.activeRiskEnd ELSE p.activeRiskStart
      IN  getPlanStatusDisplay(p, r) =
            IF p.active /\ lo <= r /\ r <= hi THEN "ACTIVE" ELSE "WAITING FOR ENTRY"

\* A strategy switched off while the current risk (90, from the feed) is
\* inside its range: it shows WAITING FOR ENTRY.
C23_Witness ==
    \E i \in Seen :
      LET p == savedPlans[i]
      IN  /\ riskValue = 90 /\ inRange(p, riskValue) /\ ~p.active
          /\ p.activatedAt # <<>>
          /\ getPlanStatusDisplay(p, riskValue) = "WAITING FOR ENTRY"

BoundSamples == {0, 20, 50, 80, 100}

\* C24: for all start, end in [0,100] getActiveRiskBounds returns minR =
\* min(start, end) <= maxR = max(start, end), the same for both orders of
\* the two bounds.
C24_RangeNormalization ==
    \A i \in Seen : \A st \in BoundSamples, en \in BoundSamples :
      LET p  == savedPlans[i]
          b  == getActiveRiskBounds([p EXCEPT !.activeRiskStart = st,
                                             !.activeRiskEnd = en])
          sw == getActiveRiskBounds([p EXCEPT !.activeRiskStart = en,
                                             !.activeRiskEnd = st])
          own == getActiveRiskBounds(p)
      IN  /\ b.minR <= b.maxR
          /\ b.minR = (IF st <= en THEN st ELSE en)
          /\ b.maxR = (IF st <= en THEN en ELSE st)
          /\ sw.minR = b.minR /\ sw.maxR = b.maxR
          /\ own.minR <= own.maxR
          /\ {own.minR, own.maxR} = {p.activeRiskStart, p.activeRiskEnd}

\* An accumulate strategy stored with start 60 above end 40 whose level 60
\* a tick has filled.
C24_Witness ==
    \E i \in Seen :
      LET p == savedPlans[i]
      IN  /\ p.mode = "accumulate" /\ p.activeRiskStart = 60 /\ p.activeRiskEnd = 40
          /\ Len(p.executions) >= 1
          /\ p.executions[1].riskAtExecution = 60

\* C25: with floor > 0 and ceiling > 0 the price at risk 0 is floor and the
\* price at risk 100 is ceiling; with floor <= 0 or ceiling <= 0 the price is
\* the linear fallback round(base * (1 + (risk/100) * 0.8)).
C25_PricingEndpoints ==
    \A a \in Assets :
      LET x == allAssets[a]
      IN  (x.present /\ x.hasComponents)
          => IF x.floor_price > 0 /\ x.ceiling_price > 0
             THEN /\ getPriceAtRisk(allAssets, assetPriceUsd, a, 0) = x.floor_price
                  /\ priceAtRiskLogError(x.floor_price, x.ceiling_price, 0) = 0
                  /\ getPriceAtRisk(allAssets, assetPriceUsd, a, 100) = x.ceiling_price
                  /\ priceAtRiskLogError(x.floor_price, x.ceiling_price, 100) = 0
             ELSE \A r \in RiskSamples :
                    getPriceAtRisk(allAssets, assetPriceUsd, a, r)
                      = (2 * x.price * (1000 + 8 * r) + 1000) \div 2000

\* C26: the executions one tick appends to a scaled strategy are in ascending
\* level order, for accumulate as well as for distribute strategies.
C26_AscendingLevelOrder ==
    [][\A id \in Kept :
         LET p   == PlanOf(savedPlans, id)
             new == NewExecs(p, PlanOf(savedPlans', id))
         IN  p.type = "scaled"
             => \A k \in 1..(Len(new) - 1) :
                  new[k].riskAtExecution < new[k + 1].riskAtExecution]_vars

WellFormed(p) == getStrategyLevelsReturns(p) /\ ~hasNull(p.executions)

Distinct(execs) ==
    \A k \in 1..Len(execs), l \in 1..Len(execs) :
      k # l => execs[k].riskAtExecution # execs[l].riskAtExecution

\* C27: every execution is matched to exactly one planned level, the closest
\* one and the earlier in the list on a tie; a level is filled iff some
\* execution matches it; and the level-crossing engine, applied twice in
\* succession at any two risks, never leaves two executions with the same
\* riskAtExecution on a scaled strategy.
C27_NearestLevelOnce ==
    \A i \in Seen :
      LET p      == savedPlans[i]
          levels == getStrategyLevels(p)
          Match(r) == CHOOSE j \in 1..Len(levels) :
                        /\ \A m \in 1..Len(levels) :
                             Abs(levels[j] - r) <= Abs(levels[m] - r)
                        /\ \A m \in 1..(j - 1) :
                             Abs(levels[m] - r) > Abs(levels[j] - r)
          on     == [p EXCEPT !.active = TRUE]
      IN  (p.type = "scaled" /\ WellFormed(p))
          => /\ \A k \in 1..Len(p.executions) :
                  closestLevel(levels, p.executions[k].riskAtExecution)
                    = levels[Match(p.executions[k].riskAtExecution)]
             /\ executedLevels(levels, p.executions)
                  = {levels[Match(p.executions[k].riskAtExecution)] :
                       k \in 1..Len(p.executions)}
             /\ Distinct(p.executions)
             /\ \A r1 \in RiskSamples, r2 \in RiskSamples :
                  Distinct(levelCrossingEngineOne(
                             levelCrossingEngineOne(on, now, EngineAt(r1)),
                             now, EngineAt(r2)).executions)

\* An active distribute strategy with filled levels to which a further tick
\* appends nothing.
C27_Witness ==
    \E i \in Seen :
      LET p == savedPlans[i]
      IN  /\ p.type = "scaled" /\ p.mode = "distribute" /\ p.active
          /\ WellFormed(p) /\ Len(p.executions) >= 2
          /\ levelCrossingEngineOne(p, now, tickClosure) = p

PassAKeepsScaled ==
    \A i \in Seen :
      savedPlans[i].type = "scaled"
        => frequencyEngine(savedPlans, now, tickClosure)[i] = savedPlans[i]
PassBKeepsFixed ==
    \A i \in Seen :
      LET p == savedPlans[i]
          q == levelCrossingEngine(savedPlans, now, tickClosure)[i]
      IN  /\ p.type = "fixed" => q = p
          /\ q = [p EXCEPT !.executions = q.executions]
FiresNothing ==
    \A i \in Seen : Len(Ticked(i).executions) = Len(savedPlans[i].executions)

\* C28 (as stated): pass A leaves every scaled strategy unchanged, pass B
\* leaves every fixed strategy unchanged and changes executions only, and a
\* tick that fires nothing returns the list unchanged.
C28_PassesDisjoint ==
    tickOutcome(savedPlans, now, tickClosure) = "returns"
      => /\ PassAKeepsScaled
         /\ PassBKeepsFixed
         /\ FiresNothing => tick(savedPlans, now, tickClosure) = savedPlans

\* C28 (amended): pass A leaves every scaled strategy unchanged, pass B
\* leaves every fixed strategy unchanged and changes executions only, and a
\* tick that fires nothing changes nothing except that it clears
\* nextExecutionAt of an active fixed strategy with a frequency whose range
\* does not contain the risk the tick evaluates with.
C28_PassesDisjointButPause ==
    tickOutcome(savedPlans, now, tickClosure) = "returns"
      => /\ PassAKeepsScaled
         /\ PassBKeepsFixed
         /\ FiresNothing =>
              \A i \in Seen :
                LET p == savedPlans[i]
                IN  \/ Ticked(i) = p
                    \/ /\ p.type = "fixed" /\ p.active /\ p.frequency # NoFrequency
                       /\ ~inRange(p, tickClosure.riskValue)
                       /\ p.nextExecutionAt # <<>>
                       /\ Ticked(i) = [p EXCEPT !.nextExecutionAt = <<>>]

\* A list whose scaled strategy had two levels filled by pass B and whose
\* out-of-range fixed strategy is left without nextExecutionAt.
C28_Witness ==
    /\ Len(savedPlans) = 2
    /\ savedPlans[1].type = "scaled" /\ savedPlans[1].executions # <<>>
    /\ ~hasNull(savedPlans[1].executions) /\ Len(savedPlans[1].executions) = 2
    /\ savedPlans[2].type = "fixed" /\ savedPlans[2].active
    /\ savedPlans[2].activeRiskEnd = 60 /\ savedPlans[2].nextExecutionAt = <<>>

IntervalOf(f) ==
    CASE f = "daily" -> DAY
      [] f = "weekly" -> 7 * DAY
      [] f = "fortnightly" -> 14 * DAY
      [] f = "monthly" -> 30 * DAY
      [] OTHER -> 7 * DAY
ByEngine(e) == Len(e.id) = 2

\* C29 (as stated): any two executions the frequency engine appended to a
\* fixed strategy are at least one frequency interval apart in time.
C29_MinimumSpacing ==
    \A i \in Seen :
      LET p == savedPlans[i]
      IN  (p.type = "fixed" /\ p.frequency # NoFrequency)
          => \A k \in 1..Len(p.executions), l \in 1..Len(p.executions) :
               (k < l /\ ByEngine(p.executions[k]) /\ ByEngine(p.executions[l]))
                 => p.executions[l].id[1] - p.executions[k].id[1]
                      >= IntervalOf(p.frequency)

\* C29 (amended): the frequency engine appends to a fixed strategy only when
\* nextExecutionAt is unset or not in the future, and then sets
\* nextExecutionAt to now + the frequency interval and lastExecutionAt to
\* now; nothing else gives nextExecutionAt a value, it can only be cleared.
C29_FiresOnlyWhenDue ==
    [][\A id \in Kept :
         LET p     == PlanOf(savedPlans, id)
             q     == PlanOf(savedPlans', id)
             fired == Len(q.executions) > Len(p.executions)
         IN  p.type = "fixed"
             => /\ fired =>
                     /\ p.frequency # NoFrequency
                     /\ p.nextExecutionAt = <<>> \/ now >= getTime(p.nextExecutionAt)
                     /\ getTime(q.nextExecutionAt) = now + IntervalOf(p.frequency)
                     /\ getTime(q.lastExecutionAt) = now
                /\ q.nextExecutionAt # p.nextExecutionAt
                     => q.nextExecutionAt = <<>> \/ fired]_vars

\* A fixed strategy that the frequency engine fired twice at the same
\* instant (it was switched on again in between).
C29_Witness ==
    \E i \in Seen :
      LET execs == savedPlans[i].executions
      IN  /\ savedPlans[i].type = "fixed"
          /\ \E k \in 1..Len(execs), l \in 1..Len(execs) :
               /\ k < l /\ ByEngine(execs[k]) /\ ByEngine(execs[l])
               /\ execs[k].id[1] = execs[l].id[1]

\* the list after setPlanActive(id of the i-th strategy, true)
SwitchedOn(i) ==
    [j \in Seen |-> IF j = i THEN [savedPlans[j] EXCEPT !.active = TRUE]
                             ELSE savedPlans[j]]

\* C30: the auto-deactivation update reaches a fixed point after at most one
\* change (a second run changes nothing), only turns active from true to
\* false and changes no other field.
C30_AutoDeactivationConverges ==
    /\ AutoDeactivate(savedPlans) = savedPlans
    /\ \A i \in Seen :
         LET x == SwitchedOn(i)
             y == AutoDeactivate(x)
         IN  /\ AutoDeactivate(y) = y
             /\ \A j \in Seen :
                  \/ y[j] = x[j]
                  \/ x[j].active /\ y[j] = [x[j] EXCEPT !.active = FALSE]

\* A distribute scaled strategy that sold more than its cap in one tick and
\* was switched off by the update that followed.
C30_Witness ==
    \E i \in Seen :
      LET p == savedPlans[i]
      IN  /\ p.mode = "distribute" /\ p.type = "scaled" /\ ~p.active
          /\ Len(p.executions) >= 2 /\ SumBtc(p.executions) > p.btcHoldings
          /\ AutoDeactivateOne([p EXCEPT !.active = TRUE]) = p

====
